---- MODULE Spec2Model ----
(***************************************************************************)
(* Hot-and-Cold geo guessing game (src/app.js).                            *)
(*                                                                         *)
(* Numbers.  JavaScript doubles are modelled in fixed point:               *)
(*   - a distance is an integer number of tenths of a metre                *)
(*     (UnitsPerMeter units per metre), so that EPS = 0.5 m is 5 units;    *)
(*   - a coordinate is an integer number of grid units, one unit being     *)
(*     the arc of a meridian that is 0.1 m long (UnitsPerDegree units per  *)
(*     degree, from R = 6371000 m);                                        *)
(*   - heat is the numerator of a fraction over HeatOne (heat = 1 is       *)
(*     HeatOne), which is exact for every distance of the grid.            *)
(* distanceMeters is the haversine distance on that grid in the local      *)
(* flat approximation (exact along a meridian).  Inputs are well-formed    *)
(* finite numbers or values of another type (strings); NaN and Infinity    *)
(* are outside the modelled input domain.                                  *)
(***************************************************************************)
EXTENDS Integers, Sequences, FiniteSets

VARIABLES
    TARGET,        \* let TARGET                       {lat, lng}
    START_OFFSET,  \* const START_OFFSET, drawn once per load
    lastMarker,    \* let lastMarker: id of a layer object, or null
    lastCircle,    \* let lastCircle: id of a layer object, or null
    prevDistance,  \* let prevDistance: distance of the previous guess, or null
    mapLayers,     \* the layers currently added to the Leaflet map
    popup,         \* the popups currently open on the map (Leaflet keeps at most one)
    view,          \* the map's viewport: [center, zoom]
    console,       \* what the handler of that event wrote with console.warn ("" when nothing)
    event,         \* the last event of the page: a click, key, touch or drag, or a setTarget call
    frame          \* the locals of the onMapClick call made for that event

vars == << TARGET, START_OFFSET, lastMarker, lastCircle, prevDistance,
           mapLayers, popup, view, console, event, frame >>

-----------------------------------------------------------------------------
(* Constants of the script and of the fixed-point representation *)

UnitsPerMeter == 10
UnitsPerDegree == 1111949        \* R * pi / 180 * UnitsPerMeter with R = 6371000, rounded
FOUND_RADIUS_METERS == 20
HOT_RADIUS_METERS == 1200
EPS_TENTHS == 5                  \* const EPS = 0.5, in tenths of a metre
START_ZOOM == 7
HeatOne == HOT_RADIUS_METERS * UnitsPerMeter   \* heat = 1

null == -1                       \* null: no id and no distance is negative

MaxDebugMarkers == 1             \* debug markers setTarget may leave on the map

Abs(x) == IF x < 0 THEN -x ELSE x
Min(a, b) == IF a < b THEN a ELSE b
Max(a, b) == IF a > b THEN a ELSE b

LatLng(lat, lng) == [lat |-> lat, lng |-> lng]

\* TARGET at load: N 32 deg 42.568', E 035 deg 06.469'
\* (42.568 / 60 and 6.469 / 60 of a degree are 788891 and 119887 units)
InitialTarget == LatLng(32 * UnitsPerDegree + 788891, 35 * UnitsPerDegree + 119887)

-----------------------------------------------------------------------------
(* Pure helpers *)

\* Newton's iteration for the floor of the square root of n, from the estimate x
IsqrtIter[n \in Nat, x \in Nat] ==
    LET y == (x + n \div x) \div 2
    IN  IF y >= x THEN x ELSE IsqrtIter[n, y]

\* Math.sqrt, rounded down to the grid
Isqrt(n) == IF n = 0 THEN 0 ELSE IsqrtIter[n, n]

HypotLimit == 30000    \* legs up to this length are squared exactly

\* distanceMeters(a, b), in tenths of a metre
distanceMeters(a, b) ==
    LET dLat == Abs(b.lat - a.lat)
        dLon == Abs(b.lng - a.lng)
        m    == Max(dLat, dLon)
        k    == m \div HypotLimit + 1
    IN  IF dLon = 0 THEN dLat
        ELSE IF dLat = 0 THEN dLon
        ELSE k * Isqrt((dLat \div k) * (dLat \div k) + (dLon \div k) * (dLon \div k))

\* Math.round(num / den) for den > 0: ties go up
RoundDiv(num, den) == (2 * num + den) \div (2 * den)

\* lerpColor(t), t = heat / HeatOne
lerpColor(heat) ==
    LET ch(cold, hot) == RoundDiv(cold * HeatOne + (hot - cold) * heat, HeatOne)
    IN  << ch(44, 226), ch(152, 75), ch(240, 75) >>

\* formatDeg(latOrLng): the degrees, the minutes in thousandths (toFixed(3)),
\* and the suffix of the formatted string
formatDeg(latOrLng) ==
    LET negative == latOrLng < 0
        abs      == Abs(latOrLng)
        deg      == abs \div UnitsPerDegree
        rest     == (abs - deg * UnitsPerDegree) * 60
        whole    == rest \div UnitsPerDegree
        frac     == (rest % UnitsPerDegree) * 1000
        q        == frac \div UnitsPerDegree
        r        == frac % UnitsPerDegree
        thousandths == whole * 1000 + q + (IF 2 * r >= UnitsPerDegree THEN 1 ELSE 0)
    IN  [deg |-> deg, minutes |-> thousandths,
         suffix |-> IF negative THEN "W/S" ELSE ""]

\* Heat without the clamps of lines 89-90
HeatUnclamped(d) == HeatOne - d

\* lines 89-90: raw = 1 - min(d, HOT) / HOT, clamped to 0..1 (numerator over HeatOne)
Heat(d) ==
    LET raw == HeatOne - Min(d, HOT_RADIUS_METERS * UnitsPerMeter)
    IN  Max(0, Min(HeatOne, raw))

\* heat >= pct / 100
HeatAtLeast(heat, pct) == heat * 100 >= pct * HeatOne

\* Title with the reveal radius excluded (d < 20 instead of d <= 20)
TitleStrictFound(d, heat, prev) ==
    IF d < FOUND_RADIUS_METERS * UnitsPerMeter THEN "FOUND!"
    ELSE IF prev = null THEN
        IF HeatAtLeast(heat, 72) THEN "Very Hot"
        ELSE IF HeatAtLeast(heat, 36) THEN "Warm"
        ELSE "Cold"
    ELSE
        IF d < prev - EPS_TENTHS THEN "Warmer"
        ELSE IF d > prev + EPS_TENTHS THEN "Colder"
        ELSE "Same"

\* Title without the tolerance band (EPS taken as 0)
TitleNoTolerance(d, heat, prev) ==
    IF d <= FOUND_RADIUS_METERS * UnitsPerMeter THEN "FOUND!"
    ELSE IF prev = null THEN
        IF HeatAtLeast(heat, 72) THEN "Very Hot"
        ELSE IF HeatAtLeast(heat, 36) THEN "Warm"
        ELSE "Cold"
    ELSE
        IF d < prev THEN "Warmer"
        ELSE IF d > prev THEN "Colder"
        ELSE "Same"

\* Title with the first tier excluding its threshold (heat > 0.72)
TitleStrictTier(d, heat, prev) ==
    IF d <= FOUND_RADIUS_METERS * UnitsPerMeter THEN "FOUND!"
    ELSE IF prev = null THEN
        IF heat * 100 > 72 * HeatOne THEN "Very Hot"
        ELSE IF HeatAtLeast(heat, 36) THEN "Warm"
        ELSE "Cold"
    ELSE
        IF d < prev - EPS_TENTHS THEN "Warmer"
        ELSE IF d > prev + EPS_TENTHS THEN "Colder"
        ELSE "Same"

\* lines 93-115: the label of a guess at distance d, given the previous distance
Title(d, heat, prev) ==
    IF d <= FOUND_RADIUS_METERS * UnitsPerMeter THEN "FOUND!"
    ELSE IF prev = null THEN
        IF HeatAtLeast(heat, 72) THEN "Very Hot"
        ELSE IF HeatAtLeast(heat, 36) THEN "Warm"
        ELSE "Cold"
    ELSE
        IF d < prev - EPS_TENTHS THEN "Warmer"
        ELSE IF d > prev + EPS_TENTHS THEN "Colder"
        ELSE "Same"

\* Body showing the coordinates the script was loaded with
BodyOfInitialTarget(d, target) ==
    IF d <= FOUND_RADIUS_METERS * UnitsPerMeter
    THEN << formatDeg(InitialTarget.lat), formatDeg(InitialTarget.lng) >>
    ELSE << >>

\* lines 141-144: the popup body, "" or the target's formatted coordinates
Body(d, target) ==
    IF d <= FOUND_RADIUS_METERS * UnitsPerMeter
    THEN << formatDeg(target.lat), formatDeg(target.lng) >>
    ELSE << >>

\* RemovePrevious without line 86: the ring stays on the map
RemoveMarkerOnly(layers, marker, circle) ==
    { l \in layers : l.id # marker }

\* lines 85-86: map.removeLayer of the previous marker and ring
RemovePrevious(layers, marker, circle) ==
    { l \in layers : l.id # marker /\ l.id # circle }

\* StoreDistance that starts a new round once the target was found
StoreUnlessFound(d) == IF d <= FOUND_RADIUS_METERS * UnitsPerMeter THEN null ELSE d

\* line 160: the distance stored for the next comparison
StoreDistance(d) == d

\* a new object: an id that no layer on the map carries (an object that is off the
\* map and about to lose its last reference is garbage, and its id may be reused)
NewId(used) == CHOOSE i \in 1..(Cardinality(used) + 1) : i \notin used

LayerIds(layers) == { l.id : l \in layers }

NoFrame == [called |-> FALSE]

\* lines 80-161
onMapClick(e) ==
    LET clicked == LatLng(e.latlng.lat, e.latlng.lng)
        d       == distanceMeters(clicked, TARGET)
        removed == RemovePrevious(mapLayers, lastMarker, lastCircle)
        heat    == Heat(d)
        title   == Title(d, heat, prevDistance)
        color   == lerpColor(heat)
        markerRadius == 6 + RoundDiv(6 * heat, HeatOne)
        ringRadius   == Min(Max(FOUND_RADIUS_METERS * UnitsPerMeter, d), 300 * UnitsPerMeter)
        marker  == [id |-> NewId(LayerIds(removed)),
                    kind |-> "circleMarker", latlng |-> clicked,
                    radius |-> markerRadius, color |-> color,
                    opacity |-> 95 * HeatOne]
        circle  == [id |-> NewId(LayerIds(removed) \cup {marker.id}),
                    kind |-> "circle", latlng |-> clicked,
                    radius |-> ringRadius, color |-> color,
                    opacity |-> 35 * HeatOne + 50 * heat]
        body    == Body(d, TARGET)
    IN  /\ mapLayers' = removed \cup {marker, circle}
        /\ lastMarker' = marker.id
        /\ lastCircle' = circle.id
        /\ popup' = { [latlng |-> clicked, strong |-> title, div |-> body, text |-> ""] }
        /\ prevDistance' = StoreDistance(d)
        /\ frame' = [called |-> TRUE, prev |-> prevDistance, d |-> d, heat |-> heat,
                     title |-> title, body |-> body]
        /\ console' = ""
        /\ UNCHANGED << TARGET, START_OFFSET, view >>

-----------------------------------------------------------------------------
(* Inputs *)

Offset(p, dLat, dLng) == LatLng(p.lat + dLat, p.lng + dLng)

\* a second target 100 m south of the first, and one in the south-west quadrant
NearTarget == Offset(InitialTarget, -1000, 0)
FarTarget  == LatLng(-(33 * UnitsPerDegree + 555000), -(70 * UnitsPerDegree + 1111930))

\* coordinates a click can carry, by their offset from the first target:
\* 0 m, 20 m, 20.1 m, 336 m (heat 0.72), 400 m, 500 m, 500.3 m, 600 m,
\* 768 m (heat 0.36), 1300 m
GuessPoints ==
    { Offset(InitialTarget, o[1], o[2]) :
        o \in { <<0, 0>>, <<200, 0>>, <<201, 0>>, <<3360, 0>>, <<4000, 0>>,
                <<3000, 4000>>, <<5003, 0>>, <<6000, 0>>, <<7680, 0>>,
                <<13000, 0>> } }

\* coordinates a touch can end on
TouchPoints == { Offset(InitialTarget, 200, 0), Offset(InitialTarget, 5003, 0) }

\* where the user can drag the map's centre to
ViewCenters == { Offset(InitialTarget, 3000, 4000) }

\* randomOffset(): +-0.6 degrees of latitude, +-1.2 degrees of longitude
StartOffsets == { LatLng(0, 0), LatLng(500000, -1200000) }

\* an argument of setTarget: a number, or a string, held as the number it reads as
Num(v) == [type |-> "number", val |-> v]
Str(v) == [type |-> "string", val |-> v]

\* 32.71 and 35.11 degrees
Lat3271 == 32 * UnitsPerDegree + 789484
Lng3511 == 35 * UnitsPerDegree + 122314

\* opts: recenter is true, "center" or absent; zoom 0 stands for absent (both falsy)
Opts(recenter, zoom, debug) == [recenter |-> recenter, zoom |-> zoom, debug |-> debug]
NoOpts == Opts("undefined", 0, FALSE)

\* the calls of setTarget(lat, lng, opts)
SetTargetCalls ==
    { << Num(t.lat), Num(t.lng), NoOpts >> : t \in {InitialTarget, NearTarget} }
    \cup { << Num(FarTarget.lat), Num(FarTarget.lng), Opts("center", 13, FALSE) >>,
           << Num(NearTarget.lat), Num(NearTarget.lng), Opts("true", 0, FALSE) >>,
           << Num(InitialTarget.lat), Num(InitialTarget.lng), Opts("undefined", 0, TRUE) >>,
           << Num(Lat3271), Str(Lng3511), NoOpts >>,
           << Str(Lat3271), Num(Lng3511), Opts("center", 13, TRUE) >>,
           << Str(Lat3271), Str(Lng3511), Opts("true", 0, TRUE) >> }

Keys == { "Enter", "Escape" }

\* ev.changedTouches[0]: absent, a point that converts, or one whose conversion throws
Touches ==
    { [kind |-> "none"], [kind |-> "throws"] }
    \cup { [kind |-> "point", latlng |-> p] : p \in TouchPoints }

-----------------------------------------------------------------------------
(* Listeners and setTarget *)

\* line 174: map.on("click", onMapClick)
Click(p) ==
    /\ event' = [type |-> "click", latlng |-> p]
    /\ onMapClick([latlng |-> p])

\* lines 181-186
Keydown(key) ==
    /\ event' = [type |-> "keydown", key |-> key, latlng |-> view.center]
    /\ IF key = "Enter"
       THEN onMapClick([latlng |-> view.center])
       ELSE /\ frame' = NoFrame
            /\ console' = ""
            /\ UNCHANGED << TARGET, START_OFFSET, lastMarker, lastCircle, prevDistance,
                            mapLayers, popup, view >>

\* TouchEnd that drops a touch ending where the last guess was drawn
TouchEndDebounced(t) ==
    /\ event' = [type |-> "touchend", touch |-> t]
    /\ IF t.kind = "none"
          \/ (t.kind = "point" /\ \E l \in mapLayers : l.id = lastMarker /\ l.latlng = t.latlng)
       THEN /\ frame' = NoFrame
            /\ console' = ""
            /\ UNCHANGED << TARGET, START_OFFSET, lastMarker, lastCircle, prevDistance,
                            mapLayers, popup, view >>
       ELSE IF t.kind = "throws"
       THEN /\ console' = "touchend conversion failed"
            /\ frame' = NoFrame
            /\ UNCHANGED << TARGET, START_OFFSET, lastMarker, lastCircle, prevDistance,
                            mapLayers, popup, view >>
       ELSE onMapClick([latlng |-> t.latlng])

\* lines 190-202
TouchEnd(t) ==
    /\ event' = [type |-> "touchend", touch |-> t]
    /\ IF t.kind = "none"
       THEN /\ frame' = NoFrame
            /\ console' = ""
            /\ UNCHANGED << TARGET, START_OFFSET, lastMarker, lastCircle, prevDistance,
                            mapLayers, popup, view >>
       ELSE IF t.kind = "throws"
       THEN /\ console' = "touchend conversion failed"
            /\ frame' = NoFrame
            /\ UNCHANGED << TARGET, START_OFFSET, lastMarker, lastCircle, prevDistance,
                            mapLayers, popup, view >>
       ELSE onMapClick([latlng |-> t.latlng])

\* InvalidArgs that rejects only when neither argument is a number
InvalidBoth(lat, lng) == lat.type # "number" /\ lng.type # "number"

\* line 210: typeof lat !== "number" || typeof lng !== "number"
InvalidArgs(lat, lng) == lat.type # "number" \/ lng.type # "number"

\* lines 217-224: the overlays setTarget takes off the map
ClearVisualState(layers, marker, circle) ==
    { l \in layers : l.id # marker /\ l.id # circle }

\* setTarget without line 225
KeepHistory(prev) == prev

\* line 225
ResetHistory(prev) == null

DebugMarkers(layers) == { l \in layers : l.kind = "marker" }

\* lines 209-238
setTarget(lat, lng, opts) ==
    /\ event' = [type |-> "setTarget", lat |-> lat, lng |-> lng, opts |-> opts]
    /\ frame' = NoFrame
    /\ IF InvalidArgs(lat, lng)
       THEN /\ console' = "setTarget requires numeric lat and lng"
            /\ UNCHANGED << TARGET, START_OFFSET, lastMarker, lastCircle, prevDistance,
                            mapLayers, popup, view >>
       ELSE LET target  == LatLng(lat.val, lng.val)
                cleared == ClearVisualState(mapLayers, lastMarker, lastCircle)
                zoom    == IF opts.zoom # 0 THEN opts.zoom ELSE view.zoom
                debug   == [id |-> NewId(LayerIds(cleared)), kind |-> "marker",
                            latlng |-> target, radius |-> 0, color |-> << >>,
                            opacity |-> 100 * HeatOne]
            IN  /\ opts.debug => Cardinality(DebugMarkers(mapLayers)) < MaxDebugMarkers
                /\ TARGET' = target
                /\ lastMarker' = null
                /\ lastCircle' = null
                /\ prevDistance' = ResetHistory(prevDistance)
                /\ view' = IF opts.recenter = "true"
                           THEN [center |-> Offset(target, START_OFFSET.lat, START_OFFSET.lng),
                                 zoom |-> zoom]
                           ELSE IF opts.recenter = "center"
                           THEN [center |-> target, zoom |-> zoom]
                           ELSE view
                /\ mapLayers' = IF opts.debug THEN cleared \cup {debug} ELSE cleared
                /\ popup' = IF opts.debug
                            THEN { [latlng |-> target, strong |-> "", div |-> << >>,
                                    text |-> "Target set"] }
                            ELSE popup
                /\ console' = ""
                /\ UNCHANGED START_OFFSET

\* the user drags the map (line 38: dragging), which moves its centre
MoveView(c) ==
    /\ event' = [type |-> "drag", center |-> c]
    /\ frame' = NoFrame
    /\ console' = ""
    /\ view' = [center |-> c, zoom |-> view.zoom]
    /\ UNCHANGED << TARGET, START_OFFSET, lastMarker, lastCircle, prevDistance,
                    mapLayers, popup >>

-----------------------------------------------------------------------------
(* The script after load: lines 9, 28-39, 74-78, 205 *)

Init ==
    /\ TARGET = InitialTarget
    /\ START_OFFSET \in StartOffsets
    /\ lastMarker = null
    /\ lastCircle = null
    /\ prevDistance = null
    /\ mapLayers = {}
    /\ popup = {}
    /\ view = [center |-> Offset(InitialTarget, START_OFFSET.lat, START_OFFSET.lng),
               zoom |-> START_ZOOM]
    /\ console = ""
    /\ event = [type |-> "load"]
    /\ frame = NoFrame

Next ==
    \/ \E p \in GuessPoints : Click(p)
    \/ \E key \in Keys : Keydown(key)
    \/ \E t \in Touches : TouchEnd(t)
    \/ \E c \in SetTargetCalls : setTarget(c[1], c[2], c[3])
    \/ \E c \in ViewCenters : MoveView(c)

Spec == Init /\ [][Next]_vars

-----------------------------------------------------------------------------
(* Vocabulary of the properties *)

FoundRadius == FOUND_RADIUS_METERS * UnitsPerMeter
HotRadius   == HOT_RADIUS_METERS * UnitsPerMeter

\* the event made a guess: a click, the Enter key, or a touch that ended on a point
IsGuess(ev) ==
    \/ ev.type = "click"
    \/ ev.type = "keydown" /\ ev.key = "Enter"
    \/ ev.type = "touchend" /\ ev.touch.kind = "point"

\* the coordinate of a guess event
GuessAt(ev) == IF ev.type = "touchend" THEN ev.touch.latlng ELSE ev.latlng

\* the label shown by the open popup
Label == (CHOOSE p \in popup : TRUE).strong

AbsoluteLabels == { "Very Hot", "Warm", "Cold" }
RelativeLabels == { "Warmer", "Colder", "Same" }

GuessOverlays(kind) == { l \in mapLayers : l.kind = kind }

\* a setTarget call whose lat and lng are both numbers, and one with a lat or lng that is not
ValidSetTarget(ev) ==
    ev.type = "setTarget" /\ ev.lat.type = "number" /\ ev.lng.type = "number"
InvalidSetTarget(ev) ==
    ev.type = "setTarget" /\ (ev.lat.type # "number" \/ ev.lng.type # "number")

\* the state right after a guess, d being that guess's distance to the target
AfterGuess == IsGuess(event) /\ Cardinality(popup) = 1
GuessDistance == distanceMeters(GuessAt(event), TARGET)

-----------------------------------------------------------------------------
(* C1 *)

\* C1 as stated: after every guess, the label is "FOUND" if and only if the
\* guess is within 20 m of the current target.
C1_AsStated ==
    IsGuess(event) =>
        /\ Cardinality(popup) = 1
        /\ (Label = "FOUND") <=> (GuessDistance <= FoundRadius)

\* C1 (amended): after every guess, whatever came before it, the label is
\* "FOUND!" if and only if the guess is within 20 m of the current target.
C1_FoundIffWithinRadius ==
    IsGuess(event) =>
        /\ Cardinality(popup) = 1
        /\ (Label = "FOUND!") <=> (GuessDistance <= FoundRadius)

\* a guess at exactly 20 m, made with a previous distance recorded, is FOUND!
C1_Witness ==
    /\ AfterGuess
    /\ GuessDistance = FoundRadius
    /\ frame.prev # null
    /\ Label = "FOUND!"

-----------------------------------------------------------------------------
(* C2 *)

\* C2: a successful setTarget, whatever guesses preceded it, leaves no guess marker and
\* no guess ring on the map and no previous distance; nothing but a guess records a
\* distance; so the next guess farther than 20 m from the new target gets an absolute
\* label, never "Warmer", "Colder" or "Same".
C2_SetTargetResets ==
    [][ /\ ValidSetTarget(event') =>
              /\ lastMarker' = null /\ lastCircle' = null
              /\ GuessOverlays("circleMarker")' = {} /\ GuessOverlays("circle")' = {}
              /\ prevDistance' = null
        /\ (prevDistance = null /\ ~IsGuess(event')) => prevDistance' = null
        /\ (prevDistance = null /\ IsGuess(event') /\ GuessDistance' > FoundRadius) =>
              Label' \in AbsoluteLabels
      ]_vars

\* right after a successful setTarget that followed guesses at the old target (their
\* popup, with a relative label, is still open) nothing of them is left
C2_Witness ==
    /\ ValidSetTarget(event)
    /\ TARGET = NearTarget
    /\ popup # {} /\ Label \in RelativeLabels
    /\ prevDistance = null /\ lastMarker = null /\ lastCircle = null

-----------------------------------------------------------------------------
(* C3 *)

SetTargetWarning == "setTarget requires numeric lat and lng"

\* C3: setTarget with a lat or lng that is not a number changes nothing: the target,
\* the previous distance, the drawn marker and ring and the viewport stay as they were,
\* whatever the options, and the call returns through its warning.
C3_InvalidSetTargetIsNoOp ==
    [][ InvalidSetTarget(event') =>
            /\ UNCHANGED << TARGET, prevDistance, lastMarker, lastCircle, mapLayers,
                            view, popup, START_OFFSET >>
            /\ console' = SetTargetWarning
      ]_vars

\* an invalid call with recenter and debug options, made while a guess is drawn
C3_Witness ==
    /\ event.type = "setTarget"
    /\ event.lat.type = "string" /\ event.lng.type = "number"
    /\ event.opts.recenter = "center" /\ event.opts.debug
    /\ console = SetTargetWarning
    /\ TARGET = NearTarget
    /\ lastMarker # null /\ lastCircle # null /\ prevDistance # null

-----------------------------------------------------------------------------
(* C4 *)

\* C4: in every reachable state the map holds at most one guess marker and at most
\* one guess ring, lastMarker and lastCircle refer to exactly the ones on the map (and
\* are null when none is drawn), and after a guess they are the ones drawn for it.
C4_OneMarkerOneRing ==
    LET markers == GuessOverlays("circleMarker")
        rings   == GuessOverlays("circle")
    IN  /\ Cardinality(markers) <= 1
        /\ Cardinality(rings) <= 1
        /\ LayerIds(markers) = (IF lastMarker = null THEN {} ELSE {lastMarker})
        /\ LayerIds(rings) = (IF lastCircle = null THEN {} ELSE {lastCircle})
        /\ IsGuess(event) =>
              /\ { l.latlng : l \in markers } = { GuessAt(event) }
              /\ { l.latlng : l \in rings } = { GuessAt(event) }

\* a touch guess that replaced the overlays of an earlier guess, a debug marker
\* of setTarget being on the map as well
C4_Witness ==
    /\ event.type = "touchend" /\ IsGuess(event)
    /\ frame.prev # null
    /\ DebugMarkers(mapLayers) # {}
    /\ Cardinality(GuessOverlays("circleMarker")) = 1
    /\ Cardinality(GuessOverlays("circle")) = 1

-----------------------------------------------------------------------------
(* C5 *)

C5_ExampleWarmer ==
    /\ AfterGuess /\ frame.prev = 500 * UnitsPerMeter
    /\ GuessDistance = 400 * UnitsPerMeter /\ Label = "Warmer"

\* previous distance 500 m, new distance 600 m: "Colder"
C5_ExampleColder ==
    /\ AfterGuess /\ frame.prev = 500 * UnitsPerMeter
    /\ GuessDistance = 600 * UnitsPerMeter /\ Label = "Colder"

-----------------------------------------------------------------------------
(* C6 *)

\* C6: a guess farther than 20 m made while no previous distance is recorded is
\* labelled from its heat alone: "Very Hot" when heat >= 0.72, "Warm" when
\* 0.36 <= heat < 0.72, "Cold" when heat < 0.36.
C6_AbsoluteLabel ==
    [][ (IsGuess(event') /\ GuessDistance' > FoundRadius /\ prevDistance = null) =>
            LET heat == frame'.heat
            IN  /\ frame'.called
                /\ (Label' = "Very Hot") <=> (100 * heat >= 72 * HeatOne)
                /\ (Label' = "Warm") <=>
                        (100 * heat >= 36 * HeatOne /\ 100 * heat < 72 * HeatOne)
                /\ (Label' = "Cold") <=> (100 * heat < 36 * HeatOne)
      ]_vars

\* a first guess whose heat is exactly 0.72 is "Very Hot"
C6_Witness ==
    /\ AfterGuess
    /\ frame.prev = null
    /\ GuessDistance > FoundRadius
    /\ 100 * frame.heat = 72 * HeatOne
    /\ Label = "Very Hot"

\* a first guess whose heat is 0.5 is "Warm"; one whose heat is 0 is "Cold"
C6_ExampleWarm ==
    /\ AfterGuess /\ frame.prev = null
    /\ 2 * frame.heat = HeatOne /\ Label = "Warm"

C6_ExampleCold ==
    /\ AfterGuess /\ frame.prev = null /\ frame.heat = 0 /\ Label = "Cold"

-----------------------------------------------------------------------------
(* C7 *)

Formatted(target) == << formatDeg(target.lat), formatDeg(target.lng) >>

\* C7: the popup of a guess holds the formatted coordinates of the target if and only
\* if the guess is within 20 m of the target current at that guess; farther away the
\* popup is the label alone; and the coordinates shown are those of the current target.
C7_RevealOnlyWithinRadius ==
    IsGuess(event) =>
        /\ Cardinality(popup) = 1
        /\ \A p \in popup :
              /\ p.latlng = GuessAt(event)
              /\ p.text = ""
              /\ (p.div # << >>) <=> (GuessDistance <= FoundRadius)
              /\ GuessDistance <= FoundRadius => p.div = Formatted(TARGET)
              /\ GuessDistance > FoundRadius => p.div = << >> /\ p.strong = frame.title

\* a reveal after setTarget replaced the target: the popup shows the new target's
\* coordinates, which read differently from the first target's
C7_Witness ==
    /\ AfterGuess
    /\ TARGET = FarTarget
    /\ GuessDistance <= FoundRadius
    /\ \A p \in popup : p.div = Formatted(FarTarget) /\ p.div # Formatted(InitialTarget)

-----------------------------------------------------------------------------
(* C8 *)

\* C8: the heat of a guess is within [0, 1]; it is 0 for every distance of at least
\* 1200 m and 1 for distance 0; and of two guesses the nearer one is at least as hot.
C8_HeatRange ==
    /\ [](frame.called =>
            /\ frame.d = GuessDistance
            /\ 0 <= frame.heat /\ frame.heat <= HeatOne
            /\ frame.d >= HotRadius => frame.heat = 0
            /\ frame.d = 0 => frame.heat = HeatOne)
    /\ [][ (frame.called /\ frame'.called) =>
              /\ frame.d <= frame'.d => frame.heat >= frame'.heat
              /\ frame'.d <= frame.d => frame'.heat >= frame.heat
         ]_vars

\* a guess at 1300 m made after a hotter guess has heat 0
C8_Witness ==
    /\ AfterGuess /\ frame.called
    /\ frame.d > HotRadius
    /\ frame.prev # null /\ frame.prev < frame.d
    /\ frame.heat = 0

-----------------------------------------------------------------------------
(* C9 *)

\* C9: every guess, a found one included, leaves its distance as the previous
\* distance, after the label was computed from the old one, and never changes the
\* target; so a guess farther than 20 m made after a found guess is labelled
\* "Warmer", "Colder" or "Same" relative to the found guess's distance.
C9_GuessRecordsDistance ==
    [][ IsGuess(event') =>
            LET d    == GuessDistance'
                prev == prevDistance
            IN  /\ prevDistance' = d
                /\ TARGET' = TARGET
                /\ frame'.called /\ frame'.prev = prev
                /\ (prev # null /\ d > FoundRadius) =>
                      /\ Label' \in RelativeLabels
                      /\ (Label' = "Colder") <=> (d > prev + EPS_TENTHS)
                      /\ (Label' = "Warmer") <=> (d < prev - EPS_TENTHS)
      ]_vars

\* a guess at more than 20 m made right after a found guess is "Colder"
C9_Witness ==
    /\ AfterGuess
    /\ frame.prev # null /\ frame.prev <= FoundRadius
    /\ GuessDistance > FoundRadius
    /\ prevDistance = GuessDistance
    /\ Label = "Colder"

-----------------------------------------------------------------------------
(* C10 *)

\* C10: a click, an Enter key and a touch that ends on a point each make exactly one
\* guess, at the event's coordinate, through the same handler; nothing is deduplicated:
\* a guess farther than 20 m that follows a guess at the same coordinate (no setTarget
\* between them) is labelled "Same", in a popup that replaces the earlier one.
C10_NoDeduplication ==
    [][ IsGuess(event') =>
            LET d == GuessDistance'
            IN  /\ frame'.called
                /\ frame'.d = d
                /\ prevDistance' = d
                /\ Cardinality(popup') = 1
                /\ \A p \in popup' : p.latlng = GuessAt(event') /\ p.strong = frame'.title
                /\ (prevDistance = null /\ d > FoundRadius) => Label' \in AbsoluteLabels
                /\ (IsGuess(event) /\ GuessAt(event) = GuessAt(event') /\ d > FoundRadius) =>
                      Label' = "Same"
      ]_vars

\* a touch that ends where the previous guess was made, 500.3 m from the target
C10_Witness ==
    /\ event.type = "touchend" /\ IsGuess(event)
    /\ frame.prev = GuessDistance
    /\ GuessDistance > FoundRadius
    /\ Label = "Same"

\* the same for the Enter key and for a click
C10_WitnessKey ==
    /\ event.type = "keydown" /\ IsGuess(event)
    /\ frame.prev = GuessDistance /\ GuessDistance > FoundRadius /\ Label = "Same"

C10_WitnessClick ==
    /\ event.type = "click"
    /\ frame.prev = GuessDistance /\ GuessDistance > FoundRadius /\ Label = "Same"

====
